---- MODULE Spec2Model ----
(***************************************************************************)
(* A model of the two-dimensional matrix Mat2<T> (src/matrix.rs), its row  *)
(* iterator, and the linear-system helper substitute (src/system.rs).      *)
(*                                                                         *)
(* Indices are the code's: rows and columns count from 0, and the TLA+     *)
(* sequence that holds a vector v keeps v[i] at position i + 1.            *)
(* A call that faults (a bounds check or an assert_eq! that fails) ends    *)
(* the task: the X_fails operators give the condition under which the      *)
(* call X faults, and the X operators its result when it does not.         *)
(***************************************************************************)
EXTENDS Integers, Sequences, FiniteSets, TLC

\* ------------------------------------------------------------------ bounds

\* Largest row count a constructor is asked for.
MaxN == 2
\* Largest row length (a constructor's column count, a row given to set_row,
\* the length add_column may reach).
MaxLen == 2
\* Width in bits of the machine word `uint` of the model. The code's uint is
\* the target's pointer-sized unsigned integer, whose arithmetic wraps; the
\* model keeps the wrapping and scales the width down.
UintBits == 2

UintModulus == 2 ^ UintBits
\* One call more than the cursor needs to wrap.
MaxCalls == UintModulus + 1

\* ------------------------------------------------------- the element type T

\* The type parameter T is instantiated with the one-bit wrapping integer:
\* Default::default() and zero() are 0, * and + are taken modulo 2.
T == {0, 1}
Default == 0
Zero == 0
Mul(a, b) == (a * b) % 2
Add(a, b) == (a + b) % 2

\* Option<X>: None, Some(x).
None == << >>
Some(x) == << x >>

RECURSIVE SeqsUpTo(_, _)
\* The sequences over S of length at most k.
SeqsUpTo(S, k) ==
    IF k = 0 THEN { << >> }
    ELSE LET shorter == SeqsUpTo(S, k - 1)
         IN  shorter \cup { Append(s, e) : s \in { t \in shorter : Len(t) = k - 1 }, e \in S }

\* The vectors ~[T] and the nested vectors ~[~[T]] the callers pass.
Rows == SeqsUpTo(T, MaxLen)
Nested == SeqsUpTo(Rows, MaxN)
\* The uint arguments the callers pass for a row index: every index in
\* bounds for some matrix of the model, and one that is out of bounds for all.
Indices == 0 .. MaxN

\* ------------------------------------------------------------ std::vec

\* vec::from_elem(k, x): k copies of x.
from_elem(k, x) == [idx \in 1 .. k |-> x]
\* vec::from_fn(k, f): f(0), ..., f(k - 1). A closure is a function on the
\* arguments it is called with.
from_fn(k, f) == [idx \in 1 .. k |-> f[idx - 1]]

\* ------------------------------------------------------------- Mat2<T>

\* new with the two from_elem counts exchanged.
new_counts_exchanged(n, m) ==
    [data |-> from_elem(m, from_elem(n, Default)), n |-> n, m |-> m]

\* Mat2::new(n, m)
new(n, m) == [data |-> from_elem(n, from_elem(m, Default)), n |-> n, m |-> m]

\* Mat2::new_with(n, m, f): f is given (row, column).
new_with(n, m, f) ==
    [data |-> from_fn(n, [r \in 0 .. n - 1 |->
                             from_fn(m, [c \in 0 .. m - 1 |-> f[<< r, c >>]])]),
     n |-> n, m |-> m]

\* Mat2::from_vec(m) faults only if m[0] is read out of bounds, which the
\* early return on n == 0 comes before.
from_vec_fails(v) ==
    LET n == Len(v)
    IN  IF n = 0 THEN FALSE ELSE ~(0 < Len(v))

\* from_vec comparing each row's length with the second row's where there is one.
from_vec_second_row(v) ==
    LET n == Len(v)
    IN  IF n = 0 THEN None
        ELSE LET l == Len(v[IF n > 1 THEN 2 ELSE 1])
             IN  IF \A x \in 2 .. Len(v) : Len(v[x]) = l
                 THEN Some([data |-> v, n |-> n, m |-> Len(v[1])])
                 ELSE None

\* Mat2::from_vec(m): an Option<Mat2<T>>.
from_vec(v) ==
    LET n == Len(v)
    IN  IF n = 0 THEN None
        ELSE LET l == Len(v[1])
             IN  IF \A x \in 1 .. Len(v) : Len(v[x]) = l
                 THEN Some([data |-> v, n |-> n, m |-> l])
                 ELSE None

\* Mat2::get_dimension: (m, n).
get_dimension(self) == << self.m, self.n >>

\* Mat2::swap_rows(i, j): the vector's swap checks both indices.
swap_rows_fails(self, i, j) == i >= Len(self.data) \/ j >= Len(self.data)

\* swap_rows that copies row j over row i and loses row i.
swap_rows_copy(self, i, j) == [self EXCEPT !.data[i + 1] = self.data[j + 1]]

swap_rows(self, i, j) ==
    [self EXCEPT !.data =
        [k \in 1 .. Len(self.data) |->
            IF k = i + 1 THEN self.data[j + 1]
            ELSE IF k = j + 1 THEN self.data[i + 1]
            ELSE self.data[k]]]

\* Mat2::set_row(i, r)
set_row_fails(self, i, r) == i >= Len(self.data)

set_row(self, i, r) == [self EXCEPT !.data[i + 1] = r]

\* Mat2::get_row(i)
get_row_fails(self, i) == i >= Len(self.data)

get_row(self, i) == self.data[i + 1]

\* Mat2::get_row_opt(i)
get_row_opt(self, i) ==
    IF i < Len(self.data) THEN Some(self.data[i + 1]) ELSE None

\* Mat2::add_column(column): the assertion compares the field n.
add_column_fails(self, column) == self.n # Len(column)

add_column(self, column) ==
    [self EXCEPT !.data =
        [k \in 1 .. Len(self.data) |->
            IF k <= Len(column) THEN Append(self.data[k], column[k])
            ELSE self.data[k]]]

\* Mat2::scale_row(i, a)
scale_row_fails(self, i, a) == i >= Len(self.data)

scale_row(self, i, a) ==
    [self EXCEPT !.data[i + 1] =
        [idx \in 1 .. Len(self.data[i + 1]) |-> Mul(self.data[i + 1][idx], a)]]

\* Eq for Mat2: self.data == other.data
Eq(self, other) == self.data = other.data

\* Mat2::add_scaled(i, j, a): data[i] is indexed first, data[j][k] for every
\* column k of row i, and set_row indexes data[j] last.
add_scaled_fails(self, i, j, a) ==
    \/ i >= Len(self.data)
    \/ \E k \in 1 .. Len(self.data[i + 1]) :
          j >= Len(self.data) \/ k > Len(self.data[j + 1])
    \/ set_row_fails(self, j, << >>)

\* add_scaled that adds row i to row j without scaling it.
add_scaled_unscaled(self, i, j, a) ==
    LET r == [k \in 1 .. Len(self.data[i + 1]) |->
                 Add(self.data[i + 1][k], self.data[j + 1][k])]
    IN  [self EXCEPT !.data[j + 1] = r]

add_scaled(self, i, j, a) ==
    LET r == [k \in 1 .. Len(self.data[i + 1]) |->
                 Add(Mul(self.data[i + 1][k], a), self.data[j + 1][k])]
    IN  set_row(self, j, r)

\* --------------------------------------------------------- RowIterator

\* Mat2::row_iter
row_iter(self) == [i |-> 0]

\* RowIterator::next: the item returned, and the iterator after the call
\* (self.i += 1 on a uint).
next_item(self, it) == get_row_opt(self, it.i)

next_iter(self, it) == [it EXCEPT !.i = (it.i + 1) % UintModulus]

\* ------------------------------------------------------ system::substitute

RECURSIVE fold_row(_, _, _, _)
\* The fold of substitute's closure over row.iter().enumerate(), from
\* position i (1-based) with accumulator a: a + values[i] * b.
fold_row(row, values, i, a) ==
    IF i > Len(row) THEN a
    ELSE fold_row(row, values, i + 1, Add(a, Mul(values[i], row[i])))

\* The closure new_with is given: |_, n| matrix.get_row(n)...fold(...). Its
\* second parameter is the one it names n.
substitute_cell(matrix, values, r, c) == fold_row(get_row(matrix, c), values, 1, Zero)

\* The closure faults if get_row does, or if values[i] is read past its end.
substitute_cell_fails(matrix, values, r, c) ==
    \/ get_row_fails(matrix, c)
    \/ Len(get_row(matrix, c)) > Len(values)

substitute_fails(matrix, values) ==
    LET n == get_dimension(matrix)[2]
    IN  \/ n # Len(values)
        \/ \E r \in 0 .. n - 1 : \E c \in 0 .. 0 :
              substitute_cell_fails(matrix, values, r, c)

substitute(matrix, values) ==
    LET n == get_dimension(matrix)[2]
    IN  new_with(n, 1, [rc \in (0 .. n - 1) \X (0 .. 0) |->
                           substitute_cell(matrix, values, rc[1], rc[2])])

\* ------------------------------------------------------------------ state

VARIABLES
    pc,     \* "start": before the constructor; "live": a matrix x exists;
            \* "none": from_vec returned None; "failed": a call faulted
    mat,    \* the matrix x
    op,     \* history: the call of the run that is recorded, and its arguments
    old,    \* history: x as it was before the recorded call
    ret,    \* what the recorded call returned, when that is a matrix or an Option of one
    other,  \* a second matrix y
    eq,     \* the result of the last x == y, if that was the last call
    iters   \* the row iterators over x: cursor, calls made, item last returned

vars == << pc, mat, op, old, ret, other, eq, iters >>

Empty == [data |-> << >>, n |-> 0, m |-> 0]
NoOp == [name |-> "none", i |-> 0, j |-> 0, a |-> 0, r |-> << >>, v |-> << >>]
Call(name, i, j, a, r, v) == [name |-> name, i |-> i, j |-> j, a |-> a, r |-> r, v |-> v]
NoIter == [live |-> FALSE, it |-> [i |-> 0], calls |-> 0, out |-> None]
IterIds == {1, 2}

Init ==
    /\ pc = "start"
    /\ mat = Empty
    /\ op = NoOp
    /\ old = Empty
    /\ ret = None
    /\ other = Empty
    /\ eq = None
    /\ iters = [k \in IterIds |-> NoIter]

\* The history variables record the constructor's call, and then one call of
\* the run, its last: the calls between the two are made by Step, which
\* records nothing.
Recorded == op.name \notin {"none", "new", "new_with", "from_vec"}

\* x exists, and no call on it is recorded yet. Each call has this guard,
\* and Next states it before the choice of the call's arguments too.
Ready == pc = "live" /\ ~Recorded

\* A call on x that returns nothing and does not fault, not recorded. x is
\* not mutated while an iterator borrows it.
Step(fails, result) ==
    /\ Ready
    /\ \A k \in IterIds : ~iters[k].live
    /\ ~fails
    /\ mat' = result
    /\ op' = NoOp
    /\ old' = Empty
    /\ ret' = None
    /\ eq' = None
    /\ UNCHANGED << pc, other, iters >>

\* The calls that mutate x, each as a Step. The model stops growing rows at
\* MaxLen.
Calls ==
    \/ Ready /\ \E i \in Indices, j \in Indices :
          Step(swap_rows_fails(mat, i, j), swap_rows(mat, i, j))
    \/ Ready /\ \E i \in Indices, r \in Rows :
          Step(set_row_fails(mat, i, r), set_row(mat, i, r))
    \/ Ready /\ \E column \in Rows :
          /\ \A k \in 1 .. Len(mat.data) : Len(mat.data[k]) < MaxLen
          /\ Step(add_column_fails(mat, column), add_column(mat, column))
    \/ Ready /\ \E i \in Indices, a \in T :
          Step(scale_row_fails(mat, i, a), scale_row(mat, i, a))
    \/ Ready /\ \E i \in Indices, j \in Indices, a \in T :
          Step(add_scaled_fails(mat, i, j, a), add_scaled(mat, i, j, a))

\* The recorded call on x, one that returns nothing: it faults, or leaves x
\* as `result`.
Mutate(call, fails, result) ==
    /\ Ready
    /\ op' = call
    /\ old' = mat
    /\ ret' = None
    /\ IF fails
       THEN pc' = "failed" /\ mat' = mat
       ELSE pc' = pc /\ mat' = result
    /\ UNCHANGED << other, eq, iters >>

\* let x = Mat2::new(n, m)
New(n, m) ==
    /\ pc = "start"
    /\ pc' = "live"
    /\ mat' = new(n, m)
    /\ op' = Call("new", n, m, 0, << >>, << >>)
    /\ ret' = None
    /\ UNCHANGED << old, other, eq, iters >>

\* let x = Mat2::new_with(n, m, f)
NewWith(n, m, f) ==
    /\ pc = "start"
    /\ pc' = "live"
    /\ mat' = new_with(n, m, f)
    /\ op' = Call("new_with", n, m, 0, << >>, << >>)
    /\ ret' = None
    /\ UNCHANGED << old, other, eq, iters >>

\* match Mat2::from_vec(v) { Some(x) => ..., None => return }
FromVec(v) ==
    /\ pc = "start"
    /\ op' = Call("from_vec", 0, 0, 0, << >>, v)
    /\ IF from_vec_fails(v)
       THEN pc' = "failed" /\ ret' = None /\ mat' = mat
       ELSE /\ ret' = from_vec(v)
            /\ IF from_vec(v) = None
               THEN pc' = "none" /\ mat' = mat
               ELSE pc' = "live" /\ mat' = from_vec(v)[1]
    /\ UNCHANGED << old, other, eq, iters >>

SwapRows(i, j) ==
    Mutate(Call("swap_rows", i, j, 0, << >>, << >>),
           swap_rows_fails(mat, i, j), swap_rows(mat, i, j))

SetRow(i, r) ==
    Mutate(Call("set_row", i, 0, 0, r, << >>),
           set_row_fails(mat, i, r), set_row(mat, i, r))

AddColumn(column) ==
    /\ \A k \in 1 .. Len(mat.data) : Len(mat.data[k]) < MaxLen
    /\ Mutate(Call("add_column", 0, 0, 0, column, << >>),
              add_column_fails(mat, column), add_column(mat, column))

ScaleRow(i, a) ==
    Mutate(Call("scale_row", i, 0, a, << >>, << >>),
           scale_row_fails(mat, i, a), scale_row(mat, i, a))

AddScaled(i, j, a) ==
    Mutate(Call("add_scaled", i, j, a, << >>, << >>),
           add_scaled_fails(mat, i, j, a), add_scaled(mat, i, j, a))

\* let r = substitute(&x, values)
Substitute(values) ==
    /\ Ready
    /\ op' = Call("substitute", 0, 0, 0, values, << >>)
    /\ old' = mat
    /\ mat' = mat
    /\ IF substitute_fails(mat, values)
       THEN pc' = "failed" /\ ret' = None
       ELSE pc' = pc /\ ret' = Some(substitute(mat, values))
    /\ UNCHANGED << other, eq, iters >>

Next ==
    \/ pc = "start" /\ \E n \in 0 .. MaxN, m \in 0 .. MaxLen : New(n, m)
    \/ pc = "start" /\ \E n \in 0 .. MaxN, m \in 0 .. MaxLen :
          \E f \in [(0 .. n - 1) \X (0 .. m - 1) -> T] : NewWith(n, m, f)
    \/ pc = "start" /\ \E v \in Nested : FromVec(v)
    \/ Ready /\ \E i \in Indices, j \in Indices : SwapRows(i, j)
    \/ Ready /\ \E i \in Indices, r \in Rows : SetRow(i, r)
    \/ Ready /\ \E column \in Rows : AddColumn(column)
    \/ Ready /\ \E i \in Indices, a \in T : ScaleRow(i, a)
    \/ Ready /\ \E i \in Indices, j \in Indices, a \in T : AddScaled(i, j, a)
    \/ Ready /\ \E values \in Rows : Substitute(values)
    \/ Calls

Spec == Init /\ [][Next]_vars

\* ------------------------------------------------- two matrices, x == y

\* What the constructors return.
Constructed ==
    { new(n, m) : n \in 0 .. MaxN, m \in 0 .. MaxLen }
        \cup UNION { UNION { { new_with(n, m, f) :
                                  f \in [(0 .. n - 1) \X (0 .. m - 1) -> T] } :
                             m \in 0 .. MaxLen } : n \in 0 .. MaxN }
        \cup { from_vec(v)[1] : v \in { w \in Nested : from_vec(w) # None } }

\* let x = <a constructor>; let y = <a constructor>
InitEq ==
    /\ pc = "live"
    /\ mat \in Constructed
    /\ other \in Constructed
    /\ op = NoOp
    /\ old = Empty
    /\ ret = None
    /\ eq = None
    /\ iters = [k \in IterIds |-> NoIter]

\* x == y
Compare ==
    /\ pc = "live"
    /\ eq' = Some(Eq(mat, other))
    /\ UNCHANGED << pc, mat, op, old, ret, other, iters >>

\* The roles of the two matrices exchanged: the next calls are made on y.
Exchange ==
    /\ pc = "live"
    /\ mat' = other
    /\ other' = mat
    /\ eq' = None
    /\ UNCHANGED << pc, op, old, ret, iters >>

NextEq ==
    \/ Calls
    \/ Compare
    \/ Exchange

SpecEq == InitEq /\ [][NextEq]_vars

\* ------------------------------------------------------- row iteration

\* let x = <a constructor>
InitIter ==
    /\ pc = "live"
    /\ mat \in Constructed
    /\ old = Empty
    /\ other = Empty
    /\ op = NoOp
    /\ ret = None
    /\ eq = None
    /\ iters = [k \in IterIds |-> NoIter]

\* let mut it = x.row_iter(): x is borrowed, and `old` is x at the borrow.
RowIter(k) ==
    /\ pc = "live"
    /\ ~iters[k].live
    /\ iters' = [iters EXCEPT ![k] =
                    [live |-> TRUE, it |-> row_iter(mat), calls |-> 0, out |-> None]]
    /\ old' = mat
    /\ UNCHANGED << pc, mat, op, ret, other, eq >>

\* it.next(); the model counts the calls up to MaxCalls.
IterNext(k) ==
    /\ pc = "live"
    /\ iters[k].live
    /\ iters[k].calls < MaxCalls
    /\ iters' = [iters EXCEPT ![k] =
                    [live |-> TRUE,
                     it |-> next_iter(mat, iters[k].it),
                     calls |-> iters[k].calls + 1,
                     out |-> next_item(mat, iters[k].it)]]
    /\ UNCHANGED << pc, mat, op, old, ret, other, eq >>

\* it goes out of scope, and its borrow of x ends.
DropIter(k) ==
    /\ pc = "live"
    /\ iters[k].live
    /\ iters' = [iters EXCEPT ![k] = NoIter]
    /\ UNCHANGED << pc, mat, op, old, ret, other, eq >>

\* x is mutated only while no iterator borrows it.
NextIter ==
    \/ \E k \in IterIds : RowIter(k)
    \/ \E k \in IterIds : IterNext(k)
    \/ \E k \in IterIds : DropIter(k)
    \/ Calls

SpecIter == InitIter /\ [][NextIter]_vars

\* ------------------------------------------------------------- properties

\* The index range of a vector.
Ix(s) == 1 .. Len(s)

\* Every row of x has col_count elements and row_count rows are stored.
WellShaped(x) ==
    /\ get_dimension(x)[2] = Len(x.data)
    /\ \A k \in Ix(x.data) : Len(x.data[k]) = get_dimension(x)[1]

RECURSIVE DotProduct(_, _, _)
\* The sum over the columns 1 .. k of values[k] * row[k], from zero in column order.
DotProduct(row, values, k) ==
    IF k = 0 THEN Zero
    ELSE Add(DotProduct(row, values, k - 1), Mul(values[k], row[k]))

\* C1: after a constructor and any calls that did not fault, every row has
\* col_count elements (the first component of get_dimension) and row_count
\* (the second) is the number of stored rows.
C1_ShapeInvariant == pc = "live" => WellShaped(mat)

\* C2: on a rectangular matrix, a substitute that returns gives a
\* single-column matrix with one row per input row, whose row r holds the dot
\* product of input row r with values.
C2_SubstituteDotProduct ==
    (op.name = "substitute" /\ pc = "live" /\ WellShaped(old)) =>
        /\ Len(ret[1].data) = Len(old.data)
        /\ \A k \in Ix(old.data) :
              ret[1].data[k] = << DotProduct(old.data[k], op.r, Len(old.data[k])) >>

\* C3: for two matrices that keep the shape invariant, x == y is true exactly
\* when row_count, col_count and all corresponding elements agree; so it is
\* false when the get_dimension results differ.
C3_EqualityIff ==
    (eq # None /\ WellShaped(mat) /\ WellShaped(other)) =>
        /\ eq[1] <=>
              /\ get_dimension(mat) = get_dimension(other)
              /\ \A k \in Ix(mat.data) : \A c \in Ix(mat.data[k]) :
                    mat.data[k][c] = other.data[k][c]
        /\ get_dimension(mat) # get_dimension(other) => ~eq[1]

\* C4: add_column(column) with a column of row_count elements appends
\* column[i] to row i, keeps the row count and makes the column count
\* get_dimension reports one more; with any other length it faults and no
\* row is modified.
C4_AddColumn ==
    op.name = "add_column" =>
        IF Len(op.r) = get_dimension(old)[2]
        THEN /\ pc = "live"
             /\ Len(mat.data) = Len(old.data)
             /\ \A k \in Ix(old.data) : mat.data[k] = Append(old.data[k], op.r[k])
             /\ get_dimension(mat) =
                    << get_dimension(old)[1] + 1, get_dimension(old)[2] >>
        ELSE pc = "failed" /\ mat = old

\* C5: from_vec never faults; it returns None exactly when the input is
\* empty or some row's length differs from the first row's, and otherwise a
\* matrix of the input rows in order, with row_count the number of rows and
\* col_count the length of the first row.
C5_FromVec ==
    op.name = "from_vec" =>
        /\ pc # "failed"
        /\ ret = None <=>
              (Len(op.v) = 0 \/ \E k \in Ix(op.v) : Len(op.v[k]) # Len(op.v[1]))
        /\ ret # None =>
              /\ ret[1].data = op.v
              /\ get_dimension(ret[1]) = << Len(op.v[1]), Len(op.v) >>
              /\ pc = "live" /\ mat = ret[1]

\* from_vec has rejected two rows of unequal length.
C5_Witness ==
    /\ op.name = "from_vec"
    /\ Len(op.v) = 2
    /\ Len(op.v[1]) # Len(op.v[2])
    /\ ret = None

\* C6: new(n, m), for n = 0 and m = 0 too, has get_dimension (m, n), n rows
\* of m elements, every element the default value, and equals new_with(n, m,
\* f) for the f that returns the default value for every cell.
C6_NewDefault ==
    (op.name = "new" /\ pc = "live") =>
        /\ get_dimension(mat) = << op.j, op.i >>
        /\ Len(mat.data) = op.i
        /\ \A k \in Ix(mat.data) :
              /\ Len(mat.data[k]) = op.j
              /\ \A c \in Ix(mat.data[k]) : mat.data[k][c] = Default
        /\ Eq(mat, new_with(op.i, op.j,
                            [rc \in (0 .. op.i - 1) \X (0 .. op.j - 1) |-> Default]))

\* new(MaxN, 1) has returned.
C6_Witness == op.name = "new" /\ pc = "live" /\ op.i = MaxN /\ op.j = 1

\* C7 as stated: after add_scaled(i, j, scalar), row j holds old_row[i][k] *
\* scalar + old_row[j][k] in each column k, row i is unchanged, and so are the
\* rows other than j and the dimensions.
C7_AddScaledRowIUnchanged ==
    (op.name = "add_scaled" /\ pc = "live" /\ WellShaped(old)) =>
        /\ Len(mat.data[op.j + 1]) = Len(old.data[op.j + 1])
        /\ \A k \in Ix(old.data[op.j + 1]) :
              mat.data[op.j + 1][k] =
                  Add(Mul(old.data[op.i + 1][k], op.a), old.data[op.j + 1][k])
        /\ mat.data[op.i + 1] = old.data[op.i + 1]
        /\ Len(mat.data) = Len(old.data)
        /\ \A k \in Ix(old.data) : k # op.j + 1 => mat.data[k] = old.data[k]
        /\ get_dimension(mat) = get_dimension(old)

\* C7, amended: after an add_scaled(i, j, scalar) that returns, row j holds
\* old_row[i][k] * scalar + old_row[j][k] for each column k of row i; row i is
\* unchanged when i # j; the rows other than j and the dimensions are unchanged.
C7_AddScaled ==
    (op.name = "add_scaled" /\ pc = "live") =>
        /\ Len(mat.data[op.j + 1]) = Len(old.data[op.i + 1])
        /\ \A k \in Ix(old.data[op.i + 1]) :
              mat.data[op.j + 1][k] =
                  Add(Mul(old.data[op.i + 1][k], op.a), old.data[op.j + 1][k])
        /\ op.i # op.j => mat.data[op.i + 1] = old.data[op.i + 1]
        /\ Len(mat.data) = Len(old.data)
        /\ \A k \in Ix(old.data) : k # op.j + 1 => mat.data[k] = old.data[k]
        /\ get_dimension(mat) = get_dimension(old)

\* add_scaled(i, j, 1) with i # j has changed row j.
C7_Witness ==
    /\ op.name = "add_scaled"
    /\ pc = "live"
    /\ op.i # op.j
    /\ op.a = 1
    /\ mat.data[op.j + 1] # old.data[op.j + 1]

\* C8: the k-th call to next returns row k - 1 for k <= row_count and None
\* for every later k; two iterators over the same matrix that have been
\* called equally often have returned the same item; and the matrix is as
\* it was when the iterators were created.
C8_IteratorSequence ==
    /\ \A k \in IterIds :
          (iters[k].live /\ iters[k].calls >= 1) =>
              iters[k].out =
                  IF iters[k].calls <= get_dimension(mat)[2]
                  THEN Some(mat.data[iters[k].calls])
                  ELSE None
    /\ \A k \in IterIds : \A l \in IterIds :
          (iters[k].live /\ iters[l].live /\ iters[k].calls = iters[l].calls) =>
              iters[k].out = iters[l].out
    /\ \A k \in IterIds : iters[k].live => mat = old

\* C9: swap_rows(i, j), for i = j too, puts the old row j at i and the old
\* row i at j, leaves the other rows and the dimensions unchanged, and a
\* second swap_rows(i, j) gives back the original matrix.
C9_SwapRows ==
    (op.name = "swap_rows" /\ pc = "live") =>
        /\ mat.data[op.i + 1] = old.data[op.j + 1]
        /\ mat.data[op.j + 1] = old.data[op.i + 1]
        /\ Len(mat.data) = Len(old.data)
        /\ \A k \in Ix(old.data) :
              (k # op.i + 1 /\ k # op.j + 1) => mat.data[k] = old.data[k]
        /\ get_dimension(mat) = get_dimension(old)
        /\ ~swap_rows_fails(mat, op.i, op.j)
        /\ swap_rows(mat, op.i, op.j) = old

\* swap_rows(i, j) has exchanged two different rows.
C9_Witness ==
    /\ op.name = "swap_rows"
    /\ pc = "live"
    /\ op.i # op.j
    /\ old.data[op.i + 1] # old.data[op.j + 1]

\* C10: on a rectangular matrix of any shape, substitute faults exactly when
\* the number of values differs from row_count; when it returns, the result's
\* get_dimension is (1, row_count) and the input matrix is unchanged.
C10_SubstituteFaults ==
    (op.name = "substitute" /\ WellShaped(old)) =>
        /\ pc = "failed" <=> Len(op.r) # get_dimension(old)[2]
        /\ pc = "live" =>
              /\ get_dimension(ret[1]) = << 1, get_dimension(old)[2] >>
              /\ mat = old

====
